---- MODULE Spec2Model ----
(***************************************************************************)
(* Model of scripts/lyric_checker_bot/src/main.rs: the batch pass of       *)
(* `main` over the labelled issues and the per-issue pipeline of           *)
(* `process_issue`.  Every awaited call or engine call of process_issue is *)
(* one step; the calls of one invocation are recorded in `calls`.          *)
(*                                                                         *)
(* Text is modelled as a sequence of one-character strings, so that        *)
(* emptiness, equality, substring containment and number parsing are       *)
(* computed and not assumed.  The non-ASCII literals of the source (field  *)
(* labels and marker phrases) are written with ASCII stand-ins; each       *)
(* stand-in names the literal it stands for.                               *)
(***************************************************************************)
EXTENDS Integers, Sequences, FiniteSets, TLC

\* ------------------------------------------------------------------ bounds
\* Number of issues that carry the label (issue numbers 1..NumIssues).
NumIssues == 2
\* Saturation value of the per-issue comment / change-request counters.
MaxPosts == 2
\* Longest line sequence of the documents drawn for the sort.
MaxLines == 3

Issues == 1..NumIssues

\* ------------------------------------------------------------------- text
\* Option<T>: None is the empty tuple, Some(v) the one-element tuple.
None == <<>>
Some(v) == <<v>>

\* The empty string "".
EmptyStr == <<>>

\* "_No response_", the text GitHub issue forms put in an unanswered field.
NoResponse == <<"_","N","o"," ","r","e","s","p","o","n","s","e","_">>

\* str::contains: sub occurs in s as a contiguous substring.
Contains(s, sub) ==
    \E i \in 0..(Len(s) - Len(sub)) :
        \A j \in 1..Len(sub) : s[i + j] = sub[j]

\* ----------------------------------------------------------- field labels
\* "TTML 歌词文件下载直链" (document download URL)
LabelTtmlUrl == "ttml_url"
\* "备注" (remarks)
LabelRemarks == "remarks"
\* "歌词选项" (lyric options)
LabelLyricOptions == "lyric_options"
\* "功能开关" (feature switches)
LabelToggles == "toggles"
\* "[平滑] 平滑因子"
LabelFactor == "smoothing_factor"
\* "[平滑] 分组时长差异阈值 (毫秒)"
LabelDurationThreshold == "smoothing_duration_threshold_ms"
\* "[平滑] 分组间隔阈值 (毫秒)"
LabelGapThreshold == "smoothing_gap_threshold_ms"
\* "[平滑] 迭代次数"
LabelIterations == "smoothing_iterations"
\* "[分词] 标点符号权重"
LabelPunctuationWeight == "punctuation_weight"

NumericLabels ==
    {LabelFactor, LabelDurationThreshold, LabelGapThreshold,
     LabelIterations, LabelPunctuationWeight}

Labels ==
    {LabelTtmlUrl, LabelRemarks, LabelLyricOptions, LabelToggles}
        \cup NumericLabels

\* "这是逐行歌词" (line-mode marker phrase)
LineMarker == <<"L","I","N","E">>
\* "启用平滑优化" (smoothing marker)
SmoothingMarker == <<"S","M","O">>
\* "启用自动分词" (auto-splitting marker)
AutoSplitMarker == <<"S","P","L">>

\* ---------------------------------------------------------- number parsing
Digits == {"0","1","2","3","4","5","6","7","8","9"}

DigitVal(c) ==
    CASE c = "0" -> 0 [] c = "1" -> 1 [] c = "2" -> 2 [] c = "3" -> 3
      [] c = "4" -> 4 [] c = "5" -> 5 [] c = "6" -> 6 [] c = "7" -> 7
      [] c = "8" -> 8 [] c = "9" -> 9

RECURSIVE DecimalValue(_)
\* Value of a sequence of digit characters read in base ten.
DecimalValue(ds) ==
    IF ds = <<>> THEN 0
    ELSE 10 * DecimalValue(SubSeq(ds, 1, Len(ds) - 1)) + DigitVal(ds[Len(ds)])

AllDigits(s) == \A i \in 1..Len(s) : s[i] \in Digits

\* <unsigned integer>::from_str: an optional '+', then one or more digits;
\* anything else (empty text, '-', blanks, letters) is an error (None).
ParseUInt(s) ==
    LET t == IF Len(s) > 0 /\ s[1] = "+" THEN Tail(s) ELSE s
    IN  IF t = <<>> \/ ~AllDigits(t) THEN None ELSE Some(DecimalValue(t))

RECURSIVE Normalize(_, _)
\* A decimal fraction mant / 10^scale with trailing zeros removed, so that
\* equal numbers have equal representations (0.150 = 0.15).
Normalize(mant, scale) ==
    IF scale > 0 /\ mant % 10 = 0 THEN Normalize(mant \div 10, scale - 1)
    ELSE <<mant, scale>>

\* f64::from_str on decimal notation: an optional sign, digits with at most
\* one '.', at least one digit in all.  The texts the model feeds it use
\* only signs, digits, '.' and letters that form no exponent, "inf" or
\* "nan"; on them every other text is an error (None).
ParseFloat(s) ==
    LET signed == Len(s) > 0 /\ s[1] \in {"+", "-"}
        t      == IF signed THEN Tail(s) ELSE s
        dots   == {i \in 1..Len(t) : t[i] = "."}
        ip     == IF dots = {} THEN t
                  ELSE SubSeq(t, 1, (CHOOSE i \in dots : TRUE) - 1)
        fp     == IF dots = {} THEN <<>>
                  ELSE SubSeq(t, (CHOOSE i \in dots : TRUE) + 1, Len(t))
        mag    == Normalize(DecimalValue(ip \o fp), Len(fp))
    IN  IF Cardinality(dots) > 1 \/ ~AllDigits(ip) \/ ~AllDigits(fp)
           \/ Len(ip) + Len(fp) = 0
        THEN None
        ELSE IF signed /\ s[1] = "-" THEN Some(<<0 - mag[1], mag[2]>>)
             ELSE Some(mag)

\* --------------------------------------------------------- body parameters
\* HashMap::get
Get(m, k) == IF k \in DOMAIN m THEN Some(m[k]) ELSE None

\* Option::unwrap_or
UnwrapOr(opt, default) == IF opt = None THEN default ELSE opt[1]

\* issue.body.as_deref().unwrap_or(""): an absent body is the empty text,
\* which has no section.
issue_body(body) == UnwrapOr(body, <<>>)

\* GitHubClient::parse_issue_body: the body text is a sequence of sections
\* [label, value]; the result maps each recognised label that occurs to the
\* raw text of its (last) section.  Unrecognised labels are ignored.
parse_issue_body(text) ==
    LET keys == {text[i].label : i \in DOMAIN text} \cap Labels
        last(k) == CHOOSE i \in DOMAIN text :
                       /\ text[i].label = k
                       /\ \A j \in DOMAIN text : j > i => text[j].label # k
    IN  [k \in keys |-> text[last(k)].value]

\* ----------------------------------------------------- parameter extraction
\* Variant of ttml_url without the `if !url.is_empty()` guard.
ttml_url_AcceptEmpty(bp) == Get(bp, LabelTtmlUrl)

\* lines 95-97: the URL is usable when the field is present and not empty.
ttml_url(bp) ==
    LET url == Get(bp, LabelTtmlUrl)
    IN  IF url # None /\ url[1] # EmptyStr THEN url ELSE None

\* line 108: body_params.get("备注").cloned().unwrap_or_default()
remarks(bp) == UnwrapOr(Get(bp, LabelRemarks), EmptyStr)

\* Variant of timing_mode that wants the field to be the marker phrase
\* and nothing else.
timing_mode_ExactMatch(bp) ==
    IF UnwrapOr(Get(bp, LabelLyricOptions), EmptyStr) = LineMarker
    THEN "Line" ELSE "Word"

\* lines 111-116
timing_mode(bp) ==
    LET lyric_options == UnwrapOr(Get(bp, LabelLyricOptions), EmptyStr)
    IN  IF Contains(lyric_options, LineMarker) THEN "Line" ELSE "Word"

\* Variant of enable_smoothing that is satisfied by any text in the
\* field.
enable_smoothing_AnySwitch(bp) ==
    UnwrapOr(Get(bp, LabelToggles), EmptyStr) # EmptyStr

\* lines 119-120
enable_smoothing(bp) ==
    Contains(UnwrapOr(Get(bp, LabelToggles), EmptyStr), SmoothingMarker)

\* lines 119, 121
auto_split(bp) ==
    Contains(UnwrapOr(Get(bp, LabelToggles), EmptyStr), AutoSplitMarker)

\* Variant of get_param with unwrap_or_default() in place of
\* unwrap_or($default): an unusable text gives zero.
get_param_ZeroDefault(bp, key, ty, default) ==
    LET s == Get(bp, key)
    IN  IF s = None THEN default
        ELSE IF s[1] = EmptyStr \/ s[1] = NoResponse
                \/ (ty = "float" /\ ParseFloat(s[1]) = None)
                \/ (ty # "float" /\ ParseUInt(s[1]) = None)
        THEN (IF ty = "float" THEN <<0, 0>> ELSE 0)
        ELSE IF ty = "float" THEN ParseFloat(s[1])[1]
        ELSE ParseUInt(s[1])[1]

\* lines 125-138 (and 152-161): the field's text, unless it is absent, empty
\* or the placeholder, is parsed; anything unusable gives the default.
\* s.parse().ok() takes its target type from the field the value is for.
get_param(bp, key, ty, default) ==
    LET s == Get(bp, key)
    IN  IF s = None THEN default
        ELSE IF s[1] = EmptyStr \/ s[1] = NoResponse THEN default
        ELSE IF ty = "float" THEN UnwrapOr(ParseFloat(s[1]), default)
        ELSE UnwrapOr(ParseUInt(s[1]), default)

\* 0.15, 0.3 as normalised decimal fractions <<mantissa, scale>>.
DefaultFactor == <<15, 2>>
DefaultPunctuationWeight == <<3, 1>>
DefaultDurationThreshold == 50
DefaultGapThreshold == 100
DefaultIterations == 5

\* lines 123-148: Some(SyllableSmoothingOptions) iff smoothing is enabled.
smoothing_options(bp) ==
    IF enable_smoothing(bp)
    THEN Some([factor |-> get_param(bp, LabelFactor, "float", DefaultFactor),
               duration_threshold_ms |->
                   get_param(bp, LabelDurationThreshold, "uint",
                             DefaultDurationThreshold),
               gap_threshold_ms |->
                   get_param(bp, LabelGapThreshold, "uint",
                             DefaultGapThreshold),
               smoothing_iterations |->
                   get_param(bp, LabelIterations, "uint",
                             DefaultIterations)])
    ELSE None

\* lines 150-164
punctuation_weight(bp) ==
    IF auto_split(bp)
    THEN get_param(bp, LabelPunctuationWeight, "float",
                   DefaultPunctuationWeight)
    ELSE DefaultPunctuationWeight

\* The locals of process_issue that lines 95-164 bind once the URL is usable.
extract_params(bp) ==
    [ttml_url           |-> ttml_url(bp)[1],
     remarks            |-> remarks(bp),
     timing_mode        |-> timing_mode(bp),
     auto_split         |-> auto_split(bp),
     smoothing_options  |-> smoothing_options(bp),
     punctuation_weight |-> punctuation_weight(bp)]

\* ------------------------------------------------------------ decline text
\* The literal of line 101.
NoUrlReason == <<"no valid TTML download link found in the issue">>

\* line 183: the format! of the parse error e (Debug form) into the reason.
parse_failure_reason(e) == <<"failed to parse the TTML file: ", e>>

RECURSIVE join(_, _)
\* [String]::join(sep), the result kept as a sequence of text pieces.
join(strs, sep) ==
    IF strs = <<>> THEN <<>>
    ELSE IF Len(strs) = 1 THEN <<strs[1]>>
    ELSE <<strs[1], sep>> \o join(Tail(strs), sep)

\* Variant of validation_failure_reason that reports the first message
\* only.
validation_failure_reason_FirstOnly(errors) ==
    <<"file validation failed:", "\n- ", errors[1]>>

\* line 215: a header line, then "\n- ", then errors.join("\n- ").
validation_failure_reason(errors) ==
    <<"file validation failed:", "\n- ">> \o join(errors, "\n- ")

\* --------------------------------------------------------- parsed document
\* A timed line of ParsedSourceData.lines; id tells the lines apart.
Line(id, start) == [id |-> id, start_ms |-> start, end_ms |-> start + 5]

RECURSIVE insert_sorted_BeforeEqual(_, _)
RECURSIVE insert_sorted(_, _)
RECURSIVE sort_by_key(_)
\* Variant of insert_sorted that puts x before the elements whose key
\* equals its own.
insert_sorted_BeforeEqual(s, x) ==
    IF s = <<>> THEN <<x>>
    ELSE IF s[Len(s)].start_ms < x.start_ms THEN Append(s, x)
    ELSE Append(insert_sorted_BeforeEqual(SubSeq(s, 1, Len(s) - 1), x),
                s[Len(s)])

\* x put into the sorted sequence s behind every element whose key is not
\* larger than its own.
insert_sorted(s, x) ==
    IF s = <<>> THEN <<x>>
    ELSE IF s[Len(s)].start_ms <= x.start_ms THEN Append(s, x)
    ELSE Append(insert_sorted(SubSeq(s, 1, Len(s) - 1), x), s[Len(s)])

\* line 191: lines.sort_by_key(|line| line.start_ms), a stable sort: the
\* lines are taken in their order and each is put behind the ones already
\* placed whose start is not larger.
sort_by_key(lines) ==
    IF lines = <<>> THEN <<>>
    ELSE insert_sorted(sort_by_key(SubSeq(lines, 1, Len(lines) - 1)),
                       lines[Len(lines)])

\* line 195: apply_smoothing changes the lines in place; what it does to
\* them is the engine's business: it may leave them or move their ends.
smoothing_results(lines, options) ==
    {lines,
     [i \in DOMAIN lines |-> [lines[i] EXCEPT !.end_ms = @ + 1]]}

RECURSIVE dedup(_)
\* The values without repetitions, first occurrences kept.
dedup(vs) ==
    IF vs = <<>> THEN <<>>
    ELSE LET front == dedup(SubSeq(vs, 1, Len(vs) - 1))
         IN  IF \E i \in DOMAIN front : front[i] = vs[Len(vs)] THEN front
             ELSE Append(front, vs[Len(vs)])

\* line 210: MetadataStore::load_from_raw: per key, its values in order.
load_from_raw(raw) ==
    [k \in {raw[i][1] : i \in DOMAIN raw} |->
        LET idx == {i \in DOMAIN raw : raw[i][1] = k}
            RECURSIVE vals(_)
            vals(n) == IF n = 0 THEN <<>>
                       ELSE IF n \in idx THEN Append(vals(n - 1), raw[n][2])
                       ELSE vals(n - 1)
        IN  vals(Len(raw))]

\* line 211: MetadataStore::deduplicate_values
deduplicate_values(store) == [k \in DOMAIN store |-> dedup(store[k])]

\* ------------------------------------------------------------------ inputs
Section(l, v) == [label |-> l, value |-> v]

\* A syntactically present download link.
UrlText == <<"h","t","t","p">>
RemarkText == <<"o","k">>
BothToggles == SmoothingMarker \o <<",">> \o AutoSplitMarker

\* issue.body of the listed issues: None, or a text made of sections.
Bodies ==
    { None,
      Some(<<Section(LabelRemarks, RemarkText)>>),
      Some(<<Section(LabelTtmlUrl, EmptyStr)>>),
      Some(<<Section(LabelTtmlUrl, NoResponse)>>),
      Some(<<Section(LabelTtmlUrl, UrlText)>>),
      Some(<<Section(LabelTtmlUrl, UrlText),
             Section(LabelRemarks, NoResponse)>>),
      Some(<<Section(LabelTtmlUrl, UrlText),
             Section(LabelLyricOptions, LineMarker)>>),
      Some(<<Section(LabelTtmlUrl, UrlText),
             Section(LabelLyricOptions, NoResponse),
             Section(LabelToggles, NoResponse)>>),
      Some(<<Section(LabelTtmlUrl, UrlText),
             Section(LabelToggles, BothToggles),
             Section(LabelFactor, NoResponse),
             Section(LabelPunctuationWeight, NoResponse)>>),
      Some(<<Section(LabelTtmlUrl, UrlText),
             Section(LabelToggles, BothToggles),
             Section(LabelFactor, <<"0",".","5">>),
             Section(LabelIterations, <<"3">>)>>),
      Some(<<Section("unrecognised", RemarkText),
             Section(LabelTtmlUrl, UrlText)>>) }

\* Texts of a numeric field: empty, placeholder, integers, fractions,
\* and a text that is no number.
NumericTexts ==
    {EmptyStr, NoResponse, <<"7">>, <<"+","3">>, <<"0",".","2","5">>,
     <<".","5">>, <<"a","b","c">>}
\* Texts of the feature-switches field.
ToggleTexts == {SmoothingMarker, AutoSplitMarker, BothToggles, NoResponse}
\* Texts of the lyric-options field: the marker alone, inside other text,
\* cut short, and texts without it.
LyricOptionTexts ==
    {EmptyStr, NoResponse, LineMarker, <<"x">> \o LineMarker \o <<"y">>,
     <<"L","I","N">>}

\* At most one section with label l, its text drawn from texts.
OptionalSection(l, texts) == {<<>>} \cup {<<Section(l, t)>> : t \in texts}

\* Bodies with a download link that vary the feature switches together
\* with one numeric field or with the lyric options.
ParamBodies ==
    {Some(<<Section(LabelTtmlUrl, UrlText)>> \o tg \o nf) :
        tg \in OptionalSection(LabelToggles, ToggleTexts),
        nf \in UNION {OptionalSection(l, NumericTexts) : l \in NumericLabels}}
    \cup
    {Some(<<Section(LabelTtmlUrl, UrlText)>> \o lo \o tg) :
        lo \in OptionalSection(LabelLyricOptions, LyricOptionTexts),
        tg \in OptionalSection(LabelToggles, ToggleTexts)}

\* Start times of lines; few, so that lines tie.
StartTimes == {0, 10, 20}
\* Every sequence of at most MaxLines lines, numbered in their order, with
\* any start times.
LineSeqs ==
    UNION {{[i \in 1..n |-> Line(i, f[i])] : f \in [1..n -> StartTimes]} :
              n \in 0..MaxLines}
\* A body with a link, and one that asks for smoothing as well.
SortBodies ==
    {Some(<<Section(LabelTtmlUrl, UrlText)>>),
     Some(<<Section(LabelTtmlUrl, UrlText),
            Section(LabelToggles, SmoothingMarker)>>)}

\* Texts a GET of the link can deliver.
Documents == {"ttml_a", "ttml_b"}
\* HTTP status codes of a delivered response.
Statuses == {200, 404}
\* What parse_ttml_content can return for a text it accepts.
ParsedDocs ==
    { [lines        |-> <<Line(1, 20), Line(2, 10), Line(3, 10)>>,
       raw_metadata |-> << <<"artist", "a">>, <<"artist", "a">>,
                           <<"title", "t">> >>,
       warnings     |-> <<"w1">>],
      [lines        |-> <<>>,
       raw_metadata |-> <<>>,
       warnings     |-> <<>>] }
\* Errors parse_ttml_content can return.
ParseErrors == {"XmlError"}
\* Results of validate_lyrics_and_metadata: Ok (no list) or Err(errors).
ValidationResults == {None, Some(<<"e1">>), Some(<<"e1", "e2">>)}

\* ------------------------------------------------------------------- state
VARIABLES
    pc,                     \* position of main / process_issue
    issues,                 \* the issues the loop of main has still to take
    listed,                 \* the issues the listing of this pass returned
    main_result,            \* "running", or what main returned
    attempts,               \* per issue: calls of process_issue in this pass
    error_log,              \* issue numbers logged by log::error! (line 66)
    issue,                  \* the issue process_issue is working on
    calls,                  \* the calls made by this process_issue so far
    result,                 \* "none", or what process_issue returned
    body_params,            \* the map parse_issue_body returned
    params,                 \* locals bound by lines 95-164
    original_ttml_content,  \* the fetched text
    pending,                \* arguments of the decline about to be posted
    parsed_data,            \* what parse_ttml_content returned (mutable)
    metadata_store,         \* the store built from parsed_data.raw_metadata
    before,                 \* tracker state of the issue at entry (history)
    comments,               \* tracker: bot comments per issue
    prs,                    \* tracker: linked change requests per issue
    fault,                  \* the last step was an unexpected error
    failed_before           \* issues whose processing once ended in Err

mainVars    == <<issues, listed, main_result, attempts, error_log>>
localVars   == <<body_params, params, original_ttml_content, pending>>
docVars     == <<parsed_data, metadata_store>>
trackerVars == <<comments, prs>>
vars == <<pc, issues, listed, main_result, attempts, error_log, issue, calls,
          result, body_params, params, original_ttml_content, pending,
          parsed_data, metadata_store, before, comments, prs, fault,
          failed_before>>

NoIssue   == [number |-> 0, body |-> None]
NoParams  == <<>>
NoContent == <<>>
NoPending == <<>>
NoMap     == <<>>
NoParsed  == <<>>
NoStore   == <<>>

Init ==
    /\ pc = "list"
    /\ issues = <<>>
    /\ listed = <<>>
    /\ main_result = "running"
    /\ attempts = [i \in Issues |-> 0]
    /\ error_log = <<>>
    /\ issue = NoIssue
    /\ calls = <<>>
    /\ result = "none"
    /\ body_params = NoMap
    /\ params = NoParams
    /\ original_ttml_content = NoContent
    /\ pending = NoPending
    /\ parsed_data = NoParsed
    /\ metadata_store = NoStore
    /\ before = <<0, 0>>
    /\ comments = [i \in Issues |-> 0]
    /\ prs = [i \in Issues |-> 0]
    /\ fault = FALSE
    /\ failed_before = {}

\* ----------------------------------------------------------------- tracker
\* GitHubClient::pr_for_issue_exists
pr_for_issue_exists(n) == prs[n] > 0
\* GitHubClient::has_bot_commented
has_bot_commented(n) == comments[n] > 0
\* One more comment / change request on issue n (counters saturate).
Bump(f, n) == [f EXCEPT ![n] = IF @ < MaxPosts THEN @ + 1 ELSE @]
\* GitHubClient::list_experimental_issues: the labelled issues, by number.
list_experimental_issues == [i \in Issues |-> i]

\* A call with what it was given (arg), how it ended (ret) and what it
\* delivered (out).
CallOut(name, arg, ret, out) ==
    [call |-> name, arg |-> arg, ret |-> ret, out |-> out]
Call(name, arg, ret) == CallOut(name, arg, ret, <<>>)
Bool(b) == IF b THEN "true" ELSE "false"

\* process_issue returns r after a last call (recorded as entry).
Return(entry, r) ==
    /\ calls' = Append(calls, entry)
    /\ result' = r
    /\ pc' = "returned"
    /\ fault' = (r = "Err")

\* process_issue goes on to position p after a call (recorded as entry).
Goto(entry, p) ==
    /\ calls' = Append(calls, entry)
    /\ pc' = p
    /\ fault' = FALSE
    /\ UNCHANGED result

\* -------------------------------------------------------------------- main
\* line 57: list the labelled issues; an error is returned by main (`?`).
ListIssues ==
    /\ pc = "list"
    /\ \/ /\ issues' = list_experimental_issues
          /\ listed' = list_experimental_issues
          /\ pc' = "loop"
          /\ fault' = FALSE
          /\ UNCHANGED main_result
       \/ /\ main_result' = "Err"
          /\ pc' = "exit"
          /\ fault' = TRUE
          /\ UNCHANGED <<issues, listed>>
    /\ UNCHANGED <<attempts, error_log, issue, calls, result, localVars,
                   before, trackerVars, failed_before>>
    /\ UNCHANGED docVars

\* Variant of NextIssue that does not wait for process_issue: the next
\* issue is started while the previous one is still being processed.
NextIssue_WhileRunning ==
    /\ pc \notin {"list", "exit", "returned"}
    /\ issues # <<>>
    /\ \E b \in Bodies : issue' = [number |-> Head(issues), body |-> b]
    /\ issues' = Tail(issues)
    /\ attempts' = [attempts EXCEPT ![Head(issues)] = @ + 1]
    /\ calls' = <<>>
    /\ result' = "none"
    /\ before' = <<comments[Head(issues)], prs[Head(issues)]>>
    /\ pc' = "gate_pr"
    /\ fault' = FALSE
    /\ UNCHANGED <<listed, main_result, error_log, localVars, trackerVars,
                   failed_before>>
    /\ UNCHANGED docVars

\* lines 59-65: the loop takes the next issue and calls process_issue.  The
\* body is part of the snapshot the listing returned; nothing reads it
\* before this point, so it is drawn here.
NextIssue ==
    /\ pc = "loop"
    /\ issues # <<>>
    /\ \E b \in Bodies : issue' = [number |-> Head(issues), body |-> b]
    /\ issues' = Tail(issues)
    /\ attempts' = [attempts EXCEPT ![Head(issues)] = @ + 1]
    /\ calls' = <<>>
    /\ result' = "none"
    /\ before' = <<comments[Head(issues)], prs[Head(issues)]>>
    /\ pc' = "gate_pr"
    /\ fault' = FALSE
    /\ UNCHANGED <<listed, main_result, error_log, localVars, trackerVars,
                   failed_before>>
    /\ UNCHANGED docVars

\* Variant of Join that propagates the error of process_issue (`?`) and so
\* ends the pass at the first failing issue.
Join_AbortOnError ==
    /\ pc = "returned"
    /\ error_log' = error_log
    /\ failed_before' = IF result = "Err"
                        THEN failed_before \cup {issue.number}
                        ELSE failed_before
    /\ body_params' = NoMap
    /\ params' = NoParams
    /\ original_ttml_content' = NoContent
    /\ pending' = NoPending
    /\ parsed_data' = NoParsed
    /\ metadata_store' = NoStore
    /\ pc' = IF result = "Err" THEN "exit" ELSE "loop"
    /\ main_result' = IF result = "Err" THEN "Err" ELSE main_result
    /\ fault' = FALSE
    /\ UNCHANGED <<issues, listed, attempts, issue, calls, result, before,
                   trackerVars>>

\* lines 65-67: process_issue has returned; an Err is logged, and the loop
\* goes on.  The locals of process_issue are dropped.
Join ==
    /\ pc = "returned"
    /\ error_log' = IF result = "Err" THEN Append(error_log, issue.number)
                    ELSE error_log
    /\ failed_before' = IF result = "Err"
                        THEN failed_before \cup {issue.number}
                        ELSE failed_before
    /\ body_params' = NoMap
    /\ params' = NoParams
    /\ original_ttml_content' = NoContent
    /\ pending' = NoPending
    /\ parsed_data' = NoParsed
    /\ metadata_store' = NoStore
    /\ pc' = "loop"
    /\ fault' = FALSE
    /\ UNCHANGED <<issues, listed, main_result, attempts, issue, calls,
                   result, before, trackerVars>>

\* Variant of Finish that makes main return Err when an issue had failed.
Finish_ErrIfAnyFailed ==
    /\ pc = "loop"
    /\ issues = <<>>
    /\ main_result' = IF error_log = <<>> THEN "Ok" ELSE "Err"
    /\ pc' = "exit"
    /\ fault' = FALSE
    /\ UNCHANGED <<issues, listed, attempts, error_log, issue, calls, result,
                   localVars, before, trackerVars, failed_before>>
    /\ UNCHANGED docVars

\* lines 59, 70-71: no issue is left; main returns Ok.
Finish ==
    /\ pc = "loop"
    /\ issues = <<>>
    /\ main_result' = "Ok"
    /\ pc' = "exit"
    /\ fault' = FALSE
    /\ UNCHANGED <<issues, listed, attempts, error_log, issue, calls, result,
                   localVars, before, trackerVars, failed_before>>
    /\ UNCHANGED docVars

\* The external scheduler runs the program again: a new pass starts with
\* fresh process state; only the tracker keeps its state.
StartPass ==
    /\ pc = "exit"
    /\ pc' = "list"
    /\ issues' = <<>>
    /\ listed' = <<>>
    /\ main_result' = "running"
    /\ attempts' = [i \in Issues |-> 0]
    /\ error_log' = <<>>
    /\ issue' = NoIssue
    /\ calls' = <<>>
    /\ result' = "none"
    /\ before' = <<0, 0>>
    /\ fault' = FALSE
    /\ UNCHANGED <<localVars, trackerVars, failed_before>>
    /\ UNCHANGED docVars

\* ----------------------------------------------------------- process_issue
\* Variant of GatePr after which the comment check is left out.
GatePr_NoCommentCheck ==
    /\ pc = "gate_pr"
    /\ \/ Return(Call("pr_for_issue_exists", issue.number, "Err"), "Err")
       \/ /\ pr_for_issue_exists(issue.number)
          /\ Return(Call("pr_for_issue_exists", issue.number, "true"), "Ok")
       \/ /\ ~pr_for_issue_exists(issue.number)
          /\ Goto(Call("pr_for_issue_exists", issue.number, "false"),
                  "extract")
    /\ UNCHANGED <<mainVars, issue, localVars, before, trackerVars,
                   failed_before>>
    /\ UNCHANGED docVars

\* lines 81-84: a linked change request exists: return Ok at once.
GatePr ==
    /\ pc = "gate_pr"
    /\ \/ Return(Call("pr_for_issue_exists", issue.number, "Err"), "Err")
       \/ /\ pr_for_issue_exists(issue.number)
          /\ Return(Call("pr_for_issue_exists", issue.number, "true"), "Ok")
       \/ /\ ~pr_for_issue_exists(issue.number)
          /\ Goto(Call("pr_for_issue_exists", issue.number, "false"),
                  "gate_comment")
    /\ UNCHANGED <<mainVars, issue, localVars, before, trackerVars,
                   failed_before>>
    /\ UNCHANGED docVars

\* Variant of GateComment that logs the earlier comment but does not return.
GateComment_NoReturn ==
    /\ pc = "gate_comment"
    /\ \/ Return(Call("has_bot_commented", issue.number, "Err"), "Err")
       \/ Goto(Call("has_bot_commented", issue.number,
                    Bool(has_bot_commented(issue.number))), "extract")
    /\ UNCHANGED <<mainVars, issue, localVars, before, trackerVars,
                   failed_before>>
    /\ UNCHANGED docVars

\* Variant of GateComment with the test negated.
GateComment_Inverted ==
    /\ pc = "gate_comment"
    /\ \/ Return(Call("has_bot_commented", issue.number, "Err"), "Err")
       \/ /\ ~has_bot_commented(issue.number)
          /\ Return(Call("has_bot_commented", issue.number, "false"), "Ok")
       \/ /\ has_bot_commented(issue.number)
          /\ Goto(Call("has_bot_commented", issue.number, "true"), "extract")
    /\ UNCHANGED <<mainVars, issue, localVars, before, trackerVars,
                   failed_before>>
    /\ UNCHANGED docVars

\* lines 87-90: the bot has commented before: return Ok at once.
GateComment ==
    /\ pc = "gate_comment"
    /\ \/ Return(Call("has_bot_commented", issue.number, "Err"), "Err")
       \/ /\ has_bot_commented(issue.number)
          /\ Return(Call("has_bot_commented", issue.number, "true"), "Ok")
       \/ /\ ~has_bot_commented(issue.number)
          /\ Goto(Call("has_bot_commented", issue.number, "false"),
                  "extract")
    /\ UNCHANGED <<mainVars, issue, localVars, before, trackerVars,
                   failed_before>>
    /\ UNCHANGED docVars

\* lines 93-164: parse the body; without a usable URL a decline is due
\* (lines 97-106), otherwise the parameters are bound and the fetch is next.
Extract ==
    /\ pc = "extract"
    /\ LET bp == parse_issue_body(issue_body(issue.body))
       IN  /\ body_params' = bp
           /\ IF ttml_url(bp) = None
              THEN /\ pending' = [reason |-> NoUrlReason, content |-> EmptyStr]
                   /\ params' = params
                   /\ Goto(Call("parse_issue_body", issue.number, "Ok"),
                           "decline")
              ELSE /\ params' = extract_params(bp)
                   /\ pending' = pending
                   /\ Goto(Call("parse_issue_body", issue.number, "Ok"),
                           "fetch")
    /\ UNCHANGED <<mainVars, issue, original_ttml_content, before,
                   trackerVars, failed_before>>
    /\ UNCHANGED docVars

\* Variant of Fetch that posts a comment about a failed request before it
\* returns the error.
Fetch_DeclineOnError ==
    /\ pc = "fetch"
    /\ \/ /\ Return(Call("send", <<params.ttml_url>>, "Err"), "Err")
          /\ comments' = Bump(comments, issue.number)
          /\ UNCHANGED <<original_ttml_content, prs>>
       \/ /\ \E st \in Statuses :
                Return(Call("text", <<params.ttml_url, st>>, "Err"), "Err")
          /\ UNCHANGED <<original_ttml_content, trackerVars>>
       \/ /\ \E st \in Statuses, doc \in Documents :
                /\ original_ttml_content' = doc
                /\ Goto(CallOut("text", <<params.ttml_url, st>>, "Ok", doc),
                        "parse")
          /\ UNCHANGED trackerVars
    /\ UNCHANGED <<mainVars, issue, body_params, params, pending, before,
                   failed_before>>
    /\ UNCHANGED docVars

\* line 168: http_client.get(ttml_url).send().await?.text().await?  Either
\* await can fail; a response of any status delivers its text.
Fetch ==
    /\ pc = "fetch"
    /\ \/ /\ Return(Call("send", <<params.ttml_url>>, "Err"), "Err")
          /\ UNCHANGED original_ttml_content
       \/ /\ \E st \in Statuses :
                Return(Call("text", <<params.ttml_url, st>>, "Err"), "Err")
          /\ UNCHANGED original_ttml_content
       \/ \E st \in Statuses, doc \in Documents :
             /\ original_ttml_content' = doc
             /\ Goto(CallOut("text", <<params.ttml_url, st>>, "Ok", doc),
                     "parse")
    /\ UNCHANGED <<mainVars, issue, body_params, params, pending, before,
                   trackerVars, failed_before>>
    /\ UNCHANGED docVars

\* Variant of Parse whose decline carries no document text.
Parse_DeclineWithoutContent ==
    /\ pc = "parse"
    /\ \/ \E data \in ParsedDocs :
             /\ parsed_data' = data
             /\ Goto(CallOut("parse_ttml_content", original_ttml_content,
                             "Ok", data), "transform")
             /\ UNCHANGED pending
       \/ \E e \in ParseErrors :
             /\ pending' = [reason  |-> parse_failure_reason(e),
                            content |-> EmptyStr]
             /\ Goto(CallOut("parse_ttml_content", original_ttml_content,
                             "Err", e), "decline")
             /\ UNCHANGED parsed_data
    /\ UNCHANGED <<mainVars, issue, body_params, params,
                   original_ttml_content, metadata_store, before,
                   trackerVars, failed_before>>

\* lines 172-189: parse_ttml_content; an error is a decline that carries
\* the fetched text.
Parse ==
    /\ pc = "parse"
    /\ \/ \E data \in ParsedDocs :
             /\ parsed_data' = data
             /\ Goto(CallOut("parse_ttml_content", original_ttml_content,
                             "Ok", data), "transform")
             /\ UNCHANGED pending
       \/ \E e \in ParseErrors :
             /\ pending' = [reason  |-> parse_failure_reason(e),
                            content |-> original_ttml_content]
             /\ Goto(CallOut("parse_ttml_content", original_ttml_content,
                             "Err", e), "decline")
             /\ UNCHANGED parsed_data
    /\ UNCHANGED <<mainVars, issue, body_params, params,
                   original_ttml_content, metadata_store, before,
                   trackerVars, failed_before>>

\* The calls of lines 191-211, in order: the sort, the smoothing when its
\* options exist (smoothed is what it leaves), and the assembly of the
\* metadata store.
transform_calls(p, data, smoothed) ==
    <<CallOut("sort_by_key", data.lines, "Ok", sort_by_key(data.lines))>>
        \o (IF p.smoothing_options # None
            THEN <<CallOut("apply_smoothing",
                           <<sort_by_key(data.lines), p.smoothing_options[1]>>,
                           "Ok", smoothed)>>
            ELSE <<>>)
        \o <<CallOut("load_from_raw", data.raw_metadata, "Ok",
                     load_from_raw(data.raw_metadata)),
             CallOut("deduplicate_values", load_from_raw(data.raw_metadata),
                     "Ok",
                     deduplicate_values(load_from_raw(data.raw_metadata)))>>

\* lines 191-211: the lines are sorted in place, smoothed in place when
\* the options exist, and the metadata store is built.
Transform ==
    /\ pc = "transform"
    /\ \E smoothed \in
            (IF params.smoothing_options # None
             THEN smoothing_results(sort_by_key(parsed_data.lines),
                                    params.smoothing_options[1])
             ELSE {sort_by_key(parsed_data.lines)}) :
          /\ parsed_data' = [parsed_data EXCEPT !.lines = smoothed]
          /\ calls' = calls \o transform_calls(params, parsed_data, smoothed)
    /\ metadata_store' =
           deduplicate_values(load_from_raw(parsed_data.raw_metadata))
    /\ pc' = "validate"
    /\ fault' = FALSE
    /\ UNCHANGED <<mainVars, issue, result, localVars, before, trackerVars,
                   failed_before>>

\* line 214: (&parsed_data.lines, &metadata_store)
validate_args == <<parsed_data.lines, metadata_store>>

\* Variant of Validate that returns Ok on validation errors without a
\* decline.
Validate_NoDecline ==
    /\ pc = "validate"
    /\ \E v \in ValidationResults :
          IF v = None
          THEN Goto(Call("validate_lyrics_and_metadata", validate_args, "Ok"),
                    "gen_compact")
          ELSE Return(CallOut("validate_lyrics_and_metadata", validate_args,
                              "Err", v[1]), "Ok")
    /\ UNCHANGED <<mainVars, issue, localVars, before, trackerVars,
                   failed_before>>
    /\ UNCHANGED docVars

\* lines 214-221: validation errors are a decline that carries the fetched
\* text.
Validate ==
    /\ pc = "validate"
    /\ \E v \in ValidationResults :
          IF v = None
          THEN /\ Goto(Call("validate_lyrics_and_metadata", validate_args, "Ok"),
                       "gen_compact")
               /\ UNCHANGED pending
          ELSE /\ pending' = [reason  |-> validation_failure_reason(v[1]),
                              content |-> original_ttml_content]
               /\ Goto(CallOut("validate_lyrics_and_metadata", validate_args,
                               "Err", v[1]), "decline")
    /\ UNCHANGED <<mainVars, issue, body_params, params,
                   original_ttml_content, before, trackerVars, failed_before>>
    /\ UNCHANGED docVars

\* Variant of gen_opts whose formatted rendering never splits words.
gen_opts_FormattedUnsplit(p, format) ==
    [timing_mode         |-> p.timing_mode,
     format              |-> format,
     auto_word_splitting |-> p.auto_split /\ ~format,
     punctuation_weight  |-> p.punctuation_weight]

\* TtmlGenerationOptions of lines 226-232 / 236-242.
gen_opts(p, format) ==
    [timing_mode         |-> p.timing_mode,
     format              |-> format,
     auto_word_splitting |-> p.auto_split,
     punctuation_weight  |-> p.punctuation_weight]

\* lines 233, 244: (&parsed_data.lines, &metadata_store, &opts)
generate_args(opts) == <<parsed_data.lines, metadata_store, opts>>

\* lines 226-233: the compact rendering; an error is returned (`?`).
GenerateCompact ==
    /\ pc = "gen_compact"
    /\ \/ Goto(Call("generate_ttml",
                    generate_args(gen_opts(params, FALSE)), "Ok"),
               "gen_formatted")
       \/ Return(Call("generate_ttml",
                      generate_args(gen_opts(params, FALSE)), "Err"), "Err")
    /\ UNCHANGED <<mainVars, issue, localVars, before, trackerVars,
                   failed_before>>
    /\ UNCHANGED docVars

\* lines 236-244: the formatted rendering; an error is returned (`?`).
GenerateFormatted ==
    /\ pc = "gen_formatted"
    /\ \/ Goto(Call("generate_ttml",
                    generate_args(gen_opts(params, TRUE)), "Ok"), "report")
       \/ Return(Call("generate_ttml",
                      generate_args(gen_opts(params, TRUE)), "Err"), "Err")
    /\ UNCHANGED <<mainVars, issue, localVars, before, trackerVars,
                   failed_before>>
    /\ UNCHANGED docVars

\* lines 248-260: GitHubClient::post_success_and_create_pr posts the
\* confirmation comment and opens the change request; a failed call leaves
\* neither and its error is returned (`?`).
PostSuccess ==
    /\ pc = "report"
    /\ \/ /\ comments' = Bump(comments, issue.number)
          /\ prs' = Bump(prs, issue.number)
          /\ Return(Call("post_success_and_create_pr",
                         <<issue.number, params.remarks>>, "Ok"), "Ok")
       \/ /\ UNCHANGED trackerVars
          /\ Return(Call("post_success_and_create_pr",
                         <<issue.number, params.remarks>>, "Err"), "Err")
    /\ UNCHANGED <<mainVars, issue, localVars, before, failed_before>>
    /\ UNCHANGED docVars

\* Variant of PostDecline without the `return Ok(())` of line 219: after the
\* decline of a validation failure the generation goes ahead.
PostDecline_FallThrough ==
    /\ pc = "decline"
    /\ \/ /\ comments' = Bump(comments, issue.number)
          /\ IF \E i \in DOMAIN calls :
                    calls[i].call = "validate_lyrics_and_metadata"
             THEN Goto(Call("post_decline_comment",
                            <<issue.number, pending.reason, pending.content>>,
                            "Ok"), "gen_compact")
             ELSE Return(Call("post_decline_comment",
                              <<issue.number, pending.reason,
                                pending.content>>, "Ok"), "Ok")
       \/ /\ UNCHANGED comments
          /\ Return(Call("post_decline_comment",
                         <<issue.number, pending.reason, pending.content>>,
                         "Err"), "Err")
    /\ UNCHANGED <<mainVars, issue, localVars, before, prs, failed_before>>
    /\ UNCHANGED docVars

\* lines 98-105, 184-187, 216-219: GitHubClient::post_decline_comment posts
\* one comment; then process_issue returns Ok.  A failed call posts nothing
\* and its error is returned (`?`).
PostDecline ==
    /\ pc = "decline"
    /\ \/ /\ comments' = Bump(comments, issue.number)
          /\ Return(Call("post_decline_comment",
                         <<issue.number, pending.reason, pending.content>>,
                         "Ok"), "Ok")
       \/ /\ UNCHANGED comments
          /\ Return(Call("post_decline_comment",
                         <<issue.number, pending.reason, pending.content>>,
                         "Err"), "Err")
    /\ UNCHANGED <<mainVars, issue, localVars, before, prs, failed_before>>
    /\ UNCHANGED docVars

\* The steps of the program.
Step ==
    \/ ListIssues \/ NextIssue \/ Join \/ Finish
    \/ GatePr \/ GateComment \/ Extract \/ Fetch \/ Parse \/ Transform
    \/ Validate \/ GenerateCompact \/ GenerateFormatted
    \/ PostSuccess \/ PostDecline

Next == Step \/ StartPass

Spec == Init /\ [][Next]_vars

\* Every step that is possible is eventually taken, and the scheduler keeps
\* starting passes.
LiveSpec == Spec /\ WF_vars(Step) /\ WF_vars(StartPass)

\* The steps of process_issue once the issue has passed the gate.
PipelineNext ==
    \/ Extract \/ Fetch \/ Parse \/ Transform \/ Validate
    \/ GenerateCompact \/ GenerateFormatted \/ PostSuccess \/ PostDecline

\* The calls of an invocation that has passed the gate.
GateCalls ==
    <<Call("pr_for_issue_exists", 1, "false"),
      Call("has_bot_commented", 1, "false")>>

\* The first issue of a pass is in process_issue at position p, having
\* made the calls cs.
Entered(b, p, cs) ==
    /\ pc = p
    /\ issues = Tail(list_experimental_issues)
    /\ listed = list_experimental_issues
    /\ main_result = "running"
    /\ attempts = [i \in Issues |-> IF i = 1 THEN 1 ELSE 0]
    /\ error_log = <<>>
    /\ issue = [number |-> 1, body |-> b]
    /\ calls = cs
    /\ result = "none"
    /\ before = <<0, 0>>
    /\ comments = [i \in Issues |-> 0]
    /\ prs = [i \in Issues |-> 0]
    /\ fault = FALSE
    /\ failed_before = {}

\* process_issue at line 93 with any of the parameter bodies.
PipelineInit ==
    /\ \E b \in ParamBodies : Entered(b, "extract", GateCalls)
    /\ body_params = NoMap
    /\ params = NoParams
    /\ original_ttml_content = NoContent
    /\ pending = NoPending
    /\ parsed_data = NoParsed
    /\ metadata_store = NoStore

\* The pipeline of one issue over the parameter bodies.
PipelineSpec == PipelineInit /\ [][PipelineNext]_vars

\* The steps of process_issue from line 191 on.
SortNext ==
    \/ Transform \/ Validate \/ GenerateCompact \/ GenerateFormatted
    \/ PostSuccess \/ PostDecline

\* process_issue at line 191: the document was fetched and parsed into any
\* of the line sequences.
SortInit ==
    \E b \in SortBodies, ls \in LineSeqs :
        LET bp   == parse_issue_body(issue_body(b))
            p    == extract_params(bp)
            data == [lines |-> ls, raw_metadata |-> <<>>, warnings |-> <<>>]
        IN  /\ Entered(b, "transform",
                       GateCalls
                       \o <<Call("parse_issue_body", 1, "Ok"),
                            CallOut("text", <<p.ttml_url, 200>>, "Ok",
                                    "ttml_a"),
                            CallOut("parse_ttml_content", "ttml_a", "Ok",
                                    data)>>)
            /\ body_params = bp
            /\ params = p
            /\ original_ttml_content = "ttml_a"
            /\ pending = NoPending
            /\ parsed_data = data
            /\ metadata_store = NoStore

\* The pipeline of one issue from the sort on, over the line sequences.
SortSpec == SortInit /\ [][SortNext]_vars

\* ------------------------------------------------------------- properties
\* What the current (or last) invocation of process_issue has called.
CallNames == {calls[i].call : i \in DOMAIN calls}
Count(name) == Cardinality({i \in DOMAIN calls : calls[i].call = name})
Returned(name, ret) ==
    \E i \in DOMAIN calls : calls[i].call = name /\ calls[i].ret = ret
ExistenceChecks == {"pr_for_issue_exists", "has_bot_commented"}
\* Both existence checks answered false: the issue passed the gate.
GatePassed == Returned("has_bot_commented", "false")
Outcomes == Count("post_decline_comment") + Count("post_success_and_create_pr")
Range(f) == {f[i] : i \in DOMAIN f}
\* The invocation has made exactly this call.
Made(entry) ==
    \E i \in DOMAIN calls : calls[i].call = entry.call /\ calls[i] = entry

TypeOK ==
    /\ pc \in {"list", "loop", "exit", "returned", "gate_pr", "gate_comment",
               "extract", "fetch", "parse", "transform", "validate",
               "gen_compact", "gen_formatted", "report", "decline"}
    /\ main_result \in {"running", "Ok", "Err"}
    /\ result \in {"none", "Ok", "Err"}
    /\ \A i \in Issues : comments[i] \in 0..MaxPosts /\ prs[i] \in 0..MaxPosts
    /\ fault \in BOOLEAN
    /\ failed_before \subseteq Issues

\* C1: when pr_for_issue_exists or has_bot_commented has answered true,
\* process_issue has returned Ok, has called nothing but the existence
\* checks, and the tracker state of the issue is what it was at entry.
C1_IdempotencyGate ==
    (Returned("pr_for_issue_exists", "true")
        \/ Returned("has_bot_commented", "true"))
    => /\ result = "Ok"
       /\ CallNames \subseteq ExistenceChecks
       /\ comments[issue.number] = before[1]
       /\ prs[issue.number] = before[2]

\* C1 witness: an issue that already has a bot comment but no check failure
\* was skipped by the second existence check.
C1_Witness ==
    /\ pc = "returned"
    /\ result = "Ok"
    /\ Returned("has_bot_commented", "true")

\* C2: in no step does an issue that already has a bot comment or a linked
\* change request get another comment or another change request.
C2_AtMostOnce ==
    [][\A i \in Issues :
          (comments[i] > 0 \/ prs[i] > 0)
          => (comments'[i] = comments[i] /\ prs'[i] = prs[i])]_vars

\* C2 witness: a later pass has taken up an issue that had a comment at
\* entry, and process_issue has returned.
C2_Witness ==
    /\ pc = "returned"
    /\ before[1] > 0
    /\ attempts[issue.number] = 1

\* C3: no issue is attempted twice in a pass; when main has ended, every
\* listed issue has been attempted exactly once; an Err of process_issue is
\* in the error log once the loop has taken it back.
C3_FailureIsolation ==
    /\ \A i \in Issues : attempts[i] <= 1
    /\ pc = "exit" => \A k \in DOMAIN listed : attempts[listed[k]] = 1
    /\ (pc \in {"loop", "exit"} /\ result = "Err")
           => issue.number \in Range(error_log)

\* C3 witness: the pass has ended, the first listed issue failed and the
\* last listed issue was attempted all the same.
C3_Witness ==
    /\ pc = "exit"
    /\ Len(listed) > 1
    /\ listed[1] \in Range(error_log)
    /\ attempts[listed[Len(listed)]] = 1

\* C4: an invocation of process_issue that has called post_decline_comment
\* calls neither generate_ttml nor post_success_and_create_pr.
C4_DeclineSkipsGeneration ==
    Count("post_decline_comment") > 0
    => /\ "generate_ttml" \notin CallNames
       /\ "post_success_and_create_pr" \notin CallNames

\* C4 witness: a decline after a validation failure has been posted and
\* process_issue has returned.
C4_Witness ==
    /\ pc = "returned"
    /\ Returned("validate_lyrics_and_metadata", "Err")
    /\ Count("post_decline_comment") = 1

\* C5 as claimed: every invocation that passed the gate ends with exactly
\* one outcome call (decline or success report).
C5_ExactlyOneOutcome ==
    (pc = "returned" /\ GatePassed) => Outcomes = 1

\* C5 as amended: an invocation that passed the gate makes at most one
\* outcome call; one that returned Ok made exactly one and it succeeded;
\* one that returned Err produced no outcome.
C5_AtMostOneOutcome ==
    GatePassed
    => /\ Outcomes <= 1
       /\ (pc = "returned" /\ result = "Ok")
              => /\ Outcomes = 1
                 /\ \/ Returned("post_decline_comment", "Ok")
                    \/ Returned("post_success_and_create_pr", "Ok")
       /\ (pc = "returned" /\ result = "Err")
              => /\ ~Returned("post_decline_comment", "Ok")
                 /\ ~Returned("post_success_and_create_pr", "Ok")

\* C5 witness: an invocation that passed the gate has ended in the success
\* report.
C5_Witness ==
    /\ pc = "returned"
    /\ GatePassed
    /\ Returned("post_success_and_create_pr", "Ok")

\* C6: when process_issue has returned Err, the issue has the comments and
\* change requests it had at entry, no outcome call succeeded, and an issue
\* that had passed the gate would pass it again.
C6_UnexpectedErrorsSilent ==
    result = "Err"
    => /\ comments[issue.number] = before[1]
       /\ prs[issue.number] = before[2]
       /\ ~Returned("post_decline_comment", "Ok")
       /\ ~Returned("post_success_and_create_pr", "Ok")
       /\ GatePassed => /\ ~pr_for_issue_exists(issue.number)
                        /\ ~has_bot_commented(issue.number)

\* C6 witness: the second generation failed and process_issue returned Err.
C6_Witness ==
    /\ pc = "returned"
    /\ result = "Err"
    /\ Count("generate_ttml") = 2
    /\ Returned("generate_ttml", "Err")

\* Every labelled issue has a bot comment or a linked change request.
AllHandled ==
    \A i \in Issues : has_bot_commented(i) \/ pr_for_issue_exists(i)

\* An issue that had neither a comment nor a change request at entry is
\* never skipped: it reaches the extraction only in that case, and when its
\* processing returns Ok it went through the gate and got its outcome.
Reprocessed ==
    /\ pc = "extract" => before = <<0, 0>>
    /\ (pc = "returned" /\ result = "Ok" /\ before = <<0, 0>>)
           => /\ GatePassed
              /\ Outcomes = 1
              /\ has_bot_commented(issue.number)

\* C7: an issue left without comment and change request is processed again
\* from the gate on when a pass takes it up; and if from some point on no
\* step is an unexpected error, then (passes being run again and again)
\* every labelled issue eventually has a bot comment or a linked change
\* request.
C7_RetryUntilHandled ==
    /\ []Reprocessed
    /\ (<>[](~fault)) => <>AllHandled

\* C7 witness: an issue whose processing had ended in Err, leaving neither a
\* comment nor a change request, was processed again from the gate on and
\* now has its outcome.
C7_Witness ==
    /\ pc = "returned"
    /\ result = "Ok"
    /\ issue.number \in failed_before
    /\ before = <<0, 0>>
    /\ GatePassed
    /\ has_bot_commented(issue.number)

\* C8 as claimed: main never returns an error.
C8_NeverFatal == main_result # "Err"

\* C8 as amended: main returns an error only when the listing failed, before
\* any issue is attempted; after a successful listing the pass ends with
\* main returning Ok, whatever failed while the issues were processed.
C8_OnlyListingFatal ==
    /\ main_result = "Err"
           => /\ listed = <<>>
              /\ \A i \in Issues : attempts[i] = 0
    /\ (pc = "exit" /\ listed # <<>>)
           => /\ main_result = "Ok"
              /\ issues = <<>>

\* C8 witness: the processing of every listed issue failed and main has
\* returned Ok.
C8_Witness ==
    /\ pc = "exit"
    /\ main_result = "Ok"
    /\ listed # <<>>
    /\ Len(error_log) = Len(listed)

\* The URL field of the issue's body as parse_issue_body delivers it.
UrlField == Get(parse_issue_body(issue_body(issue.body)), LabelTtmlUrl)
\* The body has no URL field or an empty one.
MissingUrl == UrlField = None \/ UrlField = Some(EmptyStr)
NoUrlDecline(ret) ==
    Call("post_decline_comment", <<issue.number, NoUrlReason, EmptyStr>>, ret)
FetchCalls == {"send", "text"}

\* C9 as claimed: an issue without a usable URL that passed the gate ends
\* with exactly one decline (missing-URL reason, empty content), no fetch,
\* and process_issue returning Ok.
C9_MissingUrlDeclines ==
    (pc = "returned" /\ GatePassed /\ MissingUrl)
    => /\ Count("post_decline_comment") = 1
       /\ \E r \in {"Ok", "Err"} : Made(NoUrlDecline(r))
       /\ CallNames \cap FetchCalls = {}
       /\ result = "Ok"

\* C9 as amended: such an issue ends with exactly one call of
\* post_decline_comment (missing-URL reason, empty content) and no fetch;
\* process_issue returns what that call returned.
C9_MissingUrlDeclineCall ==
    (pc = "returned" /\ GatePassed /\ MissingUrl)
    => /\ Count("post_decline_comment") = 1
       /\ CallNames \cap FetchCalls = {}
       /\ Made(NoUrlDecline(result))

\* C9 witness: an issue with an absent body was declined for its missing
\* URL.
C9_Witness ==
    /\ pc = "returned"
    /\ issue.body = None
    /\ Made(NoUrlDecline("Ok"))

\* The map m without the key k.
Without(m, k) == [x \in DOMAIN m \ {k} |-> m[x]]

\* C10 as claimed: a field that holds the placeholder is used nowhere and
\* behaves as an absent field: once the parameters are bound they are the
\* ones the body without that field gives, and a placeholder in the URL
\* field leads to the missing-URL decline without any fetch.
C10_PlaceholderEqualsAbsent ==
    /\ params # NoParams
           => \A f \in DOMAIN body_params :
                  body_params[f] = NoResponse
                  => /\ ttml_url(Without(body_params, f)) # None
                     /\ params = extract_params(Without(body_params, f))
    /\ (GatePassed /\ UrlField = Some(NoResponse))
           => /\ CallNames \cap FetchCalls = {}
              /\ pc = "returned" =>
                     \E r \in {"Ok", "Err"} : Made(NoUrlDecline(r))

\* The text of field l in the body of the issue, as an Option.
Field(l) == Get(parse_issue_body(issue_body(issue.body)), l)
\* The feature-switches field names the marker m.
Switched(m) ==
    Field(LabelToggles) # None /\ Contains(Field(LabelToggles)[1], m)
\* What text parses to as a number of kind ty.
Parsed(ty, text) == IF ty = "float" THEN ParseFloat(text) ELSE ParseUInt(text)
\* Field l is missing, empty, the placeholder, or no number of kind ty.
Unusable(l, ty) ==
    \/ Field(l) = None
    \/ Field(l)[1] = EmptyStr
    \/ Field(l)[1] = NoResponse
    \/ Parsed(ty, Field(l)[1]) = None
\* The value the claim gives to field l.
Resolved(l, ty, default) ==
    IF Unusable(l, ty) THEN default ELSE Parsed(ty, Field(l)[1])[1]

\* C11: once the parameters are bound, each smoothing number (when
\* smoothing is enabled) is its default 0.15, 50, 100, 5 if its field is
\* missing, empty, the placeholder or unparsable, else the parsed value;
\* the punctuation weight likewise with default 0.3 when auto-splitting is
\* enabled and 0.3 otherwise; and an issue with a link is never declined
\* for its parameters.
C11_NumericDefaulting ==
    /\ params # NoParams
           => /\ Switched(SmoothingMarker)
                     => params.smoothing_options =
                            Some([factor |->
                                      Resolved(LabelFactor, "float", <<15, 2>>),
                                  duration_threshold_ms |->
                                      Resolved(LabelDurationThreshold,
                                               "uint", 50),
                                  gap_threshold_ms |->
                                      Resolved(LabelGapThreshold, "uint", 100),
                                  smoothing_iterations |->
                                      Resolved(LabelIterations, "uint", 5)])
              /\ params.punctuation_weight =
                     (IF Switched(AutoSplitMarker)
                      THEN Resolved(LabelPunctuationWeight, "float", <<3, 1>>)
                      ELSE <<3, 1>>)
    /\ (pc # "extract" /\ ~MissingUrl)
           => /\ params # NoParams
              /\ pending # NoPending => pending.reason # NoUrlReason

\* C11 witness: smoothing is enabled, the iteration field holds a text
\* that is no number, and the parameters are bound.
C11_Witness ==
    /\ pc = "fetch"
    /\ Switched(SmoothingMarker)
    /\ Field(LabelIterations) = Some(<<"a","b","c">>)

\* The lyric-options field is present and contains the line-mode marker.
LineRequested ==
    Field(LabelLyricOptions) # None
        /\ Contains(Field(LabelLyricOptions)[1], LineMarker)
ResolvedMode == IF LineRequested THEN "Line" ELSE "Word"

\* C12: the timing mode is Line exactly when the lyric-options field is
\* present and contains the marker phrase, Word otherwise, and every call
\* of generate_ttml is given that mode.
C12_TimingMode ==
    /\ params # NoParams => params.timing_mode = ResolvedMode
    /\ \A i \in DOMAIN calls :
           calls[i].call = "generate_ttml"
               => calls[i].arg[3].timing_mode = ResolvedMode

\* C12 witness: the marker phrase stands inside other text and both
\* renderings have been generated.
C12_Witness ==
    /\ pc = "report"
    /\ Field(LabelLyricOptions) = Some(<<"x">> \o LineMarker \o <<"y">>)
    /\ Count("generate_ttml") = 2

\* The GET ended in a transport failure or in a response whose status is
\* not 2xx.
FetchFailed ==
    \/ Returned("send", "Err")
    \/ \E i \in DOMAIN calls :
           calls[i].call = "text" /\ calls[i].arg[2] \notin 200..299

\* C13 as claimed: after a transport failure or a non-2xx response the
\* document is not parsed, neither a decline nor a success report is
\* posted, and process_issue returns an error.
C13_FetchFailureAborts ==
    FetchFailed
    => /\ Count("parse_ttml_content") = 0
       /\ Count("post_decline_comment") = 0
       /\ Count("post_success_and_create_pr") = 0
       /\ pc = "returned" => result = "Err"

RECURSIVE Bullets(_)
\* Each message behind a line break and a "- " bullet, in order.
Bullets(errors) ==
    IF errors = <<>> THEN <<>>
    ELSE <<"\n- ", errors[1]>> \o Bullets(Tail(errors))

\* C14: when validation has returned N >= 1 messages, there is no success
\* report and at most one decline call, exactly one once process_issue has
\* returned, and the decline's reason is the header followed by the N
\* messages in their order, each on a bullet line of its own.
C14_ValidationDeclineReport ==
    \A i \in DOMAIN calls :
        (calls[i].call = "validate_lyrics_and_metadata"
            /\ calls[i].ret = "Err" /\ Len(calls[i].out) > 0)
        => /\ Count("post_success_and_create_pr") = 0
           /\ Count("post_decline_comment") <= 1
           /\ pc = "returned" => Count("post_decline_comment") = 1
           /\ pc = "decline" =>
                  pending.reason =
                      <<"file validation failed:">> \o Bullets(calls[i].out)
           /\ \A j \in DOMAIN calls :
                  calls[j].call = "post_decline_comment"
                  => calls[j].arg[2] =
                         <<"file validation failed:">>
                             \o Bullets(calls[i].out)

\* C14 witness: validation returned two messages and the decline was
\* posted.
C14_Witness ==
    /\ pc = "returned"
    /\ \E i \in DOMAIN calls :
           /\ calls[i].call = "validate_lyrics_and_metadata"
           /\ calls[i].ret = "Err"
           /\ Len(calls[i].out) = 2
    /\ Returned("post_decline_comment", "Ok")

\* o holds the elements of a, each as often as a does.
IsPermutation(a, o) ==
    /\ Len(o) = Len(a)
    /\ \E f \in [DOMAIN o -> DOMAIN a] :
           /\ \A k, l \in DOMAIN o : f[k] = f[l] => k = l
           /\ \A k \in DOMAIN o : o[k] = a[f[k]]
\* The place of line x in o.
Pos(o, x) == CHOOSE k \in DOMAIN o : o[k] = x

\* C15: what the sort leaves is a permutation of the parsed lines, is
\* nondecreasing by start_ms, and keeps two lines with equal start_ms in
\* the order they had.
C15_NormalizationSort ==
    \A i \in DOMAIN calls :
        calls[i].call = "sort_by_key"
        => LET a == calls[i].arg
               o == calls[i].out
           IN  /\ IsPermutation(a, o)
               /\ \A k, l \in DOMAIN o :
                      k < l => o[k].start_ms <= o[l].start_ms
               /\ \A k, l \in DOMAIN a :
                      (k < l /\ a[k].start_ms = a[l].start_ms)
                      => Pos(o, a[k]) < Pos(o, a[l])

\* C15 witness: three lines, the first starting last and the other two
\* tied, have been sorted.
C15_Witness ==
    /\ pc = "validate"
    /\ \E i \in DOMAIN calls :
           /\ calls[i].call = "sort_by_key"
           /\ calls[i].arg = <<Line(1, 20), Line(2, 10), Line(3, 10)>>
           /\ calls[i].out = <<Line(2, 10), Line(3, 10), Line(1, 20)>>

\* The calls that are handed the lines after the transform step.
LineConsumers == {"validate_lyrics_and_metadata", "generate_ttml"}

\* C16: the smoothing options exist, and apply_smoothing is called (once,
\* in the transform step), exactly when the feature-switches field contains
\* the smoothing marker, whatever the other fields hold; without the marker
\* validation and generation are handed the very sequence the sort left.
C16_SmoothingOptIn ==
    /\ params # NoParams
           => (params.smoothing_options # None <=> Switched(SmoothingMarker))
    /\ Count("apply_smoothing") =
           (IF Count("sort_by_key") > 0 /\ Switched(SmoothingMarker)
            THEN 1 ELSE 0)
    /\ ~Switched(SmoothingMarker)
           => \A i, j \in DOMAIN calls :
                  (calls[i].call = "sort_by_key"
                      /\ calls[j].call \in LineConsumers)
                  => calls[j].arg[1] = calls[i].out

\* C16 witness: the switches name auto-splitting only, the sort reordered
\* the lines, and both renderings were generated from them.
C16_Witness ==
    /\ pc = "report"
    /\ Field(LabelToggles) = Some(AutoSplitMarker)
    /\ \E i \in DOMAIN calls :
           calls[i].call = "sort_by_key" /\ calls[i].out # calls[i].arg

\* C17: once the success report is called, generate_ttml has been called
\* exactly twice; every generation is handed the lines and the metadata
\* store that validation accepted; the first has format false, the second
\* format true, and their options agree in everything else.
C17_DualGeneration ==
    /\ Count("post_success_and_create_pr") > 0 => Count("generate_ttml") = 2
    /\ Count("generate_ttml") <= 2
    /\ \A v, g \in DOMAIN calls :
           (calls[v].call = "validate_lyrics_and_metadata"
               /\ calls[g].call = "generate_ttml")
           => /\ calls[v].ret = "Ok"
              /\ v < g
              /\ calls[g].arg[1] = calls[v].arg[1]
              /\ calls[g].arg[2] = calls[v].arg[2]
    /\ \A h \in DOMAIN calls :
           calls[h].call = "generate_ttml"
           => /\ calls[h].arg[3].format =
                     (\E g \in 1..(h - 1) : calls[g].call = "generate_ttml")
              /\ \A g \in 1..(h - 1) :
                     calls[g].call = "generate_ttml"
                     => /\ calls[h].arg[3].timing_mode
                               = calls[g].arg[3].timing_mode
                        /\ calls[h].arg[3].auto_word_splitting
                               = calls[g].arg[3].auto_word_splitting
                        /\ calls[h].arg[3].punctuation_weight
                               = calls[g].arg[3].punctuation_weight
                        /\ [calls[h].arg[3] EXCEPT !.format = FALSE]
                               = calls[g].arg[3]

\* C17 witness: auto-splitting was asked for, smoothing changed the lines,
\* both renderings were generated and the success report was made.
C17_Witness ==
    /\ pc = "returned"
    /\ Returned("post_success_and_create_pr", "Ok")
    /\ Switched(AutoSplitMarker)
    /\ \E i \in DOMAIN calls :
           /\ calls[i].call = "apply_smoothing"
           /\ calls[i].out # calls[i].arg[1]

\* The place of a call in the order of the steps; the decline is no step
\* of that order.
StepRank(name) ==
    CASE name = "pr_for_issue_exists"          -> 1
      [] name = "has_bot_commented"            -> 2
      [] name = "parse_issue_body"             -> 3
      [] name \in FetchCalls                   -> 4
      [] name = "parse_ttml_content"           -> 5
      [] name = "sort_by_key"                  -> 6
      [] name = "apply_smoothing"              -> 7
      [] name \in {"load_from_raw", "deduplicate_values"} -> 8
      [] name = "validate_lyrics_and_metadata" -> 9
      [] name = "generate_ttml"                -> 10
      [] name = "post_success_and_create_pr"   -> 11
      [] OTHER                                 -> 0
\* The call at place i of the log is a step that succeeded: a gate check
\* that found nothing, a GET answered with a 2xx status and read, any other
\* call that returned Ok.
Succeeded(i) ==
    CASE calls[i].call \in ExistenceChecks -> calls[i].ret = "false"
      [] calls[i].call = "text" ->
             calls[i].ret = "Ok" /\ calls[i].arg[2] \in 200..299
      [] OTHER -> calls[i].ret = "Ok"

\* C18 as claimed: the steps of an invocation are called in the order of
\* the pipeline, a step is called only when every earlier step succeeded
\* (for the fetch: a 2xx response), validation is handed the lines that
\* smoothing left, and the success report follows an accepted validation
\* and two successful generations.
C18_StepOrdering ==
    /\ \A i, j \in DOMAIN calls :
           (i < j /\ StepRank(calls[j].call) > 0)
           => /\ StepRank(calls[i].call) <= StepRank(calls[j].call)
              /\ Succeeded(i)
    /\ \A i, j \in DOMAIN calls :
           (calls[i].call = "apply_smoothing"
               /\ calls[j].call = "validate_lyrics_and_metadata")
           => calls[j].arg[1] = calls[i].out
    /\ Count("post_success_and_create_pr") > 0
           => /\ Returned("validate_lyrics_and_metadata", "Ok")
              /\ Count("generate_ttml") = 2
              /\ ~Returned("generate_ttml", "Err")

\* The calls that work on the parsed document.
AfterParse ==
    {"sort_by_key", "apply_smoothing", "load_from_raw",
     "deduplicate_values", "validate_lyrics_and_metadata", "generate_ttml",
     "post_success_and_create_pr"}

\* C19: a decline that follows a fetch carries the text the fetch
\* delivered, whatever the sort and the smoothing did to the lines; and
\* after a parse failure no call works on the document.
C19_DeclineContent ==
    /\ \A i, j \in DOMAIN calls :
           (calls[i].call = "text" /\ calls[i].ret = "Ok"
               /\ calls[j].call = "post_decline_comment")
           => calls[j].arg[3] = calls[i].out
    /\ \A i \in DOMAIN calls :
           (calls[i].call = "text" /\ calls[i].ret = "Ok" /\ pc = "decline")
           => pending.content = calls[i].out
    /\ Returned("parse_ttml_content", "Err")
           => CallNames \cap AfterParse = {}

\* C19 witness: the document did not parse and the decline was posted.
C19_Witness ==
    /\ pc = "returned"
    /\ Returned("parse_ttml_content", "Err")
    /\ Returned("post_decline_comment", "Ok")

\* A second C19 case, the validation failure after smoothing changed the
\* lines, is reached too.
C19_ValidationCase ==
    /\ pc = "returned"
    /\ Returned("validate_lyrics_and_metadata", "Err")
    /\ Returned("post_decline_comment", "Ok")
    /\ \E i \in DOMAIN calls :
           calls[i].call = "apply_smoothing"
               /\ calls[i].out # calls[i].arg[1]

\* process_issue is between its entry and its return.
InProgress == issue # NoIssue /\ pc \notin {"list", "loop", "returned", "exit"}

\* C20: a new issue is taken only by the loop, when no issue is in
\* progress, and it is the next of the list; a call is made, and the
\* tracker changed, only for the issue in progress and only for that one;
\* the issue in progress is left alone until process_issue has returned;
\* and no issue is attempted twice in a pass.
C20_Sequential ==
    [][/\ (issue' # issue /\ issue' # NoIssue)
              => /\ ~InProgress
                 /\ issue = NoIssue \/ result # "none"
                 /\ issues # <<>>
                 /\ issue'.number = Head(issues)
                 /\ issues' = Tail(issues)
       /\ InProgress => issue' = issue
       /\ Len(calls') > Len(calls)
              => /\ InProgress
                 /\ SubSeq(calls', 1, Len(calls)) = calls
       /\ trackerVars' # trackerVars
              => /\ InProgress
                 /\ \A i \in Issues \ {issue.number} :
                        comments'[i] = comments[i] /\ prs'[i] = prs[i]
       /\ \A i \in Issues : attempts'[i] <= 1]_vars

\* C20 witness: the second issue of the list is in progress after the
\* first one got its change request.
C20_Witness ==
    /\ listed # <<>>
    /\ Len(listed) >= 2
    /\ issue.number = listed[2]
    /\ pc = "report"
    /\ prs[listed[1]] = 1
    /\ attempts[listed[1]] = 1

====
